---- MODULE Spec2Model ----
(***************************************************************************)
(* bpm: a minimal package manager.  The model follows main.go of the       *)
(* repository: the three commands (init, install, rebuild), the recursive  *)
(* resolver with its concurrent clone tasks, and the reconciler with its   *)
(* concurrent pull tasks.                                                  *)
(*                                                                         *)
(* A directory of the vendor tree is named by the sequence of package      *)
(* identifiers leading to it: <<"a", "b">> is dir/vendor/a/vendor/b.  The  *)
(* nested map[string]*bpmEntry of the lockfile is kept flat, as a function *)
(* from such paths to entries.                                             *)
(***************************************************************************)
EXTENDS Integers, Sequences, FiniteSets, TLC

\* ---------------------------------------------------------------- bounds
MaxImports == 2   \* import edges of the import graph an initial state draws
MaxDepth == 2     \* deepest vendor nesting the file system can still create
MaxEntries == 3   \* entries of a lockfile an initial state draws

\* ------------------------------------------------------------- universe
RootPkg == "r"
vendorFolderName == <<"v", "e", "n", "d", "o", "r">>
Packages == {"r", "a", "b", "c"}
LockIds == {"a", "b"}
Branches == {"master", "dev"}
Commits == {"c1", "c2"}
DefaultBranch == "master"
Tip(b) == IF b = "master" THEN "c2" ELSE "c1"

ChanCap == 1

\* `git remote get-url origin` fails: the project has no remote
NoRemote == "(no remote)"

NoFile == [exists |-> FALSE, package |-> "", deps |-> <<>>, perm0 |-> FALSE]
EmptyMap == <<>>
NoData == [package |-> "", deps |-> EmptyMap]

VARIABLES
  imports,    \* package -> the identifiers its sources import (already matched)
  origin,     \* what getCurrentPackage finds for the project ("" = unresolvable)
  lockfile,   \* dir/bpm.json
  cwdfile,    \* ./bpm.json when the working directory is another directory
  vendor,     \* path -> state of that vendor directory
  run,        \* "none", then "first", then "again": an invocation and one more
  cmd,        \* the command running (or last run)
  prev,       \* command and status of the invocation before this one, and
              \* the lockfiles this invocation started with
  status,     \* "idle", "running", "done", "noop", "aborted"
  data,       \* the bpmPackage in memory
  stack,      \* call frames of the main goroutine
  task,       \* path -> position of the goroutine started for it
  chan,       \* path -> content of that goroutine's channel
  ops,        \* git commands issued by the current invocation
  importSpecs, \* the import strings getAllImports has read (getImports' input)
  idents,     \* the identifiers getImports returns for them
  targets,    \* the directories of the clone tasks installPackages starts
  tree,       \* a directory tree handed to getAllSourceFiles: path -> kind
  sources,    \* the list getAllSourceFiles returns for it
  pos,        \* how far the function followed by itself has run
  document,   \* the file writeDataFile has written: its mode and its JSON text
  decoded,    \* the bpmPackage readDataFile returns for it
  args,       \* os.Args of an invocation
  exe,        \* the directory of the running binary (a path from the root)
  lockdirs,   \* the directories that hold a lockfile
  chosen      \* the directory the command's handler works on

\* the state of a command's invocation
program == <<imports, origin, lockfile, cwdfile, vendor, run, cmd,
             prev, status, data, stack, task, chan, ops>>
\* the state of the lockfile's encoding and of the command line
codec == <<document, decoded>>
cli == <<args, exe, lockdirs, chosen>>
\* the state of the functions that are followed by themselves
units == <<importSpecs, idents, targets, tree, sources, pos, codec, cli>>

vars == <<program, units>>

env == <<imports, origin, units>>

\* ---------------------------------------------------------------- helpers
\* a resolver that matches the project's imports at every level
ProjectSelf(p) == data.package

Self(p) == IF p = <<>> THEN data.package ELSE p[Len(p)]
Child(p, x) == Append(p, x)
Parent(p) == SubSeq(p, 1, Len(p) - 1)
ChildrenOf(m, p) == {q \in DOMAIN m : Len(q) = Len(p) + 1 /\ Parent(q) = p}
Put(m, k, v) == [x \in DOMAIN m \cup {k} |-> IF x = k THEN v ELSE m[x]]
Top == stack[Len(stack)]
Pop == SubSeq(stack, 1, Len(stack) - 1)
SetTop(f) == [stack EXCEPT ![Len(stack)] = f]

\* ------------------------------------------------------- file system, git
fileExists(p) == p \in DOMAIN vendor
isGitRepo(p) == fileExists(p) /\ vendor[p].kind = "repo"
EmptyDir == [kind |-> "dir", branch |-> "", head |-> "", tree |-> ""]
OtherFiles == [kind |-> "files", branch |-> "", head |-> "", tree |-> ""]
Absent == [kind |-> "absent", branch |-> "", head |-> "", tree |-> ""]

\* createDir: MkdirAll when the directory is missing
createDir(v, p) == IF p \in DOMAIN v THEN v ELSE Put(v, p, EmptyDir)

\* a rebuild that leaves the vendor directory as it finds it
keepDir(v) == v

\* removeDir(vendorDir): RemoveAll
removeDir(v) == EmptyMap

\* git clone succeeds only into a missing or empty directory
CanClone(p) == vendor[p].kind = "dir"
cloneRepo(v, p) ==
  Put(v, p, [kind |-> "repo", branch |-> DefaultBranch,
             head |-> Tip(DefaultBranch), tree |-> Tip(DefaultBranch)])

getCurrentBranch(p) == vendor[p].branch
getCurrentCommitHash(p) == vendor[p].head

\* git checkout <branch>: HEAD moves to the branch, the tree follows
checkoutBranch(r, b) == [r EXCEPT !.branch = b, !.head = Tip(b), !.tree = Tip(b)]

\* git checkout <commit> . : the paths of the tree are taken from the commit,
\* HEAD stays where it is
checkoutCommit(r, c) == [r EXCEPT !.tree = c]

\* cloneURL := "https://" + pkg; an url that is not set is <<>>
UrlOf(x) == <<"https://", x>>
NilEntry == [nil |-> TRUE]

\* getImports of an earlier version of the file: the current package stays
getImportsAll(found, currentPkg) == found

\* getImports: the matched identifiers, without the current package
getImports(found, currentPkg) == {k \in found : k # currentPkg}

\* writeDataFile: ioutil.WriteFile(dependencyFilename, ..., os.ModeExclusive).
\* The name is relative to the working directory, and the permission bits of
\* os.ModeExclusive are 0: a file it creates has mode 000.
Written(old, d) ==
  [exists |-> TRUE, package |-> d.package, deps |-> d.deps,
   perm0 |-> IF old.exists THEN old.perm0 ELSE TRUE]

\* ------------------------------------------------------------ initial states
Edges(g) == Cardinality({e \in Packages \X Packages : e[2] \in g[e[1]]})
\* the packages the resolver can come to from the project
RECURSIVE Reach(_, _)
Reach(g, seen) ==
  LET more == seen \cup UNION {g[p] : p \in seen}
  IN IF more = seen THEN seen ELSE Reach(g, more)
\* the import graphs: only packages the resolver comes to have imports, and
\* the identifiers are used in order ("b" only with "a", "c" only with "b")
ImportGraphs ==
  {g \in [Packages -> SUBSET Packages] :
     /\ Edges(g) <= MaxImports
     /\ LET used == Reach(g, {RootPkg})
        IN /\ \A p \in Packages \ used : g[p] = {}
           /\ "c" \in used => "b" \in used
           /\ "b" \in used => "a" \in used}
NoImports == [p \in Packages |-> {}]
\* the sources of a project that has a lockfile: at most one import, of
\* another package
LockedGraphs == {g \in ImportGraphs : Edges(g) <= 1 /\ RootPkg \notin g[RootPkg]}

\* the key sets a lockfile can have, grown one entry at a time: an entry is
\* added under the root or under an entry, and the keys of one level are
\* taken in order ("b" only beside "a")
Extensions(s) ==
  {q \in {Child(p, x) : p \in s \cup {<<>>}, x \in LockIds} \ s :
     q[Len(q)] = "b" => Child(Parent(q), "a") \in s}
RECURSIVE ShapesUpTo(_)
ShapesUpTo(n) ==
  IF n = 0 THEN {{}}
  ELSE LET smaller == ShapesUpTo(n - 1)
       IN smaller \cup UNION {{s \cup {q} : q \in Extensions(s)} : s \in smaller}
LockShapes == ShapesUpTo(MaxEntries)

\* what the lockfile pins for an entry, and what is in its directory
Pins == [branch : {""} \cup Branches, commit : {""} \cup Commits]
\* a checkout that is there before the run: on a branch, at its tip, the tree
\* at that commit or (left by an earlier checkoutCommit) at another one
Checkouts == {[kind |-> "repo", branch |-> b, head |-> Tip(b), tree |-> c] :
                b \in Branches, c \in Commits}
PreStates == {Absent, EmptyDir, OtherFiles} \cup Checkouts
\* an entry pinned behind the tip of its branch, nothing fetched yet
PeerPin == [branch |-> "master", commit |-> "c1"]
PeerPre == Absent

EntryOf(q, pin) ==
  [url |-> UrlOf(q[Len(q)]), branch |-> pin.branch, commit |-> pin.commit]

\* a directory is there only if its parent entry's directory is a checkout
Present(shape, pre) ==
  {q \in shape : /\ pre[q] # Absent
                 /\ \A k \in 1..(Len(q) - 1) : pre[SubSeq(q, 1, k)] \in Checkouts}

Idle ==
  /\ run = "none" /\ cmd = "none" /\ status = "idle"
  /\ prev = [cmd |-> "none", status |-> "idle",
             lockfile |-> lockfile, cwdfile |-> cwdfile]
  /\ data = NoData
  /\ stack = <<>> /\ task = EmptyMap /\ chan = EmptyMap /\ ops = {}

\* the vendor tree of a project without a lockfile: none, or one that holds
\* a checkout of a package the project imports
Vendored(g) ==
  {EmptyMap} \cup {cloneRepo(EmptyMap, <<x>>) : x \in g[RootPkg] \cap {"a"}}

\* a project that was never initialised
InitFresh ==
  /\ imports \in ImportGraphs
  /\ origin \in {RootPkg, "", NoRemote}
  /\ lockfile = NoFile /\ cwdfile = NoFile
  /\ vendor \in Vendored(imports)
  /\ Idle

\* a project with a lockfile (say from a fresh checkout of the project)
InitLocked ==
  /\ imports \in LockedGraphs
  /\ origin = RootPkg
  /\ cwdfile = NoFile
  /\ \E shape \in LockShapes : \E focus \in shape \cup {<<>>} :
       \E fpin \in Pins : \E fpre \in PreStates :
         LET pin == [q \in shape |-> IF q = focus THEN fpin ELSE PeerPin]
             pre == [q \in shape |-> IF q = focus THEN fpre ELSE PeerPre]
         IN /\ focus = <<>> => (fpin = PeerPin /\ fpre = PeerPre)
            /\ lockfile = [exists |-> TRUE, package |-> RootPkg,
                           deps |-> [q \in shape |-> EntryOf(q, pin[q])],
                           perm0 |-> FALSE]
            /\ vendor = [q \in Present(shape, pre) |-> pre[q]]
  /\ Idle

NoFileWritten == [mode |-> "none", json |-> <<>>]
NoCodec == document = NoFileWritten /\ decoded = NoData
NoCli == args = <<>> /\ exe = "" /\ lockdirs = {} /\ chosen = ""

\* the matcher and the scanner are followed as parts of resolveDependencies
NoUnit ==
  /\ importSpecs = {} /\ idents = {} /\ targets = {}
  /\ tree = EmptyMap /\ sources = <<>>
  /\ pos = "idle"
  /\ NoCodec /\ NoCli

Init == (InitFresh \/ InitLocked) /\ NoUnit

\* ------------------------------------------------------------ the commands
\* a check of the lockfile that looks in the wrong place
depFileNever == FALSE
depFileAlways == TRUE

\* fileExists(depFile), lines 86 and 121
depFileExists == lockfile.exists

CanStart == status \in {"idle", "done", "noop"} /\ run # "again"

Begin(c) ==
  /\ CanStart
  /\ run' = IF run = "none" THEN "first" ELSE "again"
  /\ cmd' = c
  /\ prev' = [cmd |-> cmd, status |-> status,
              lockfile |-> lockfile, cwdfile |-> cwdfile]
  /\ task' = EmptyMap /\ chan' = EmptyMap /\ ops' = {}

Frame(p, m) == [path |-> p, mode |-> m, todo |-> {}]

\* getCurrentPackage, line 486: runCmd panics when git ends with an error
RemoteFails == origin = NoRemote
\* getCurrentPackage, lines 487-502: the identifier of the remote, or ""
getCurrentPackage == origin

\* a bpmPackage that starts from the entries of the lockfile
StaleData(pkg) == [package |-> pkg, deps |-> lockfile.deps]

\* the bpmPackage of init and rebuild: the package and the mapping that
\* resolveDependencies builds from an empty one (line 259)
FreshData(pkg) == [package |-> pkg, deps |-> EmptyMap]

\* doInit up to the call of resolveDependencies
doInit ==
  /\ Begin("init")
  /\ IF depFileExists
       THEN /\ status' = "noop"
            /\ data' = NoData /\ stack' = <<>>
       ELSE IF RemoteFails
         THEN /\ status' = "aborted"
              /\ data' = NoData /\ stack' = <<>>
         ELSE IF getCurrentPackage = ""
           THEN /\ status' = "noop"
                /\ data' = NoData /\ stack' = <<>>
           ELSE /\ status' = "running"
                /\ data' = FreshData(getCurrentPackage)
                /\ stack' = <<Frame(<<>>, "resolve")>>
  /\ UNCHANGED <<env, lockfile, cwdfile, vendor>>

\* doRebuild up to the call of resolveDependencies
doRebuild ==
  /\ Begin("rebuild")
  /\ IF RemoteFails
       THEN /\ status' = "aborted"
            /\ data' = NoData /\ stack' = <<>>
            /\ UNCHANGED vendor
       ELSE IF getCurrentPackage = ""
         THEN /\ status' = "noop"
              /\ data' = NoData /\ stack' = <<>>
              /\ UNCHANGED vendor
         ELSE /\ vendor' = removeDir(vendor)
              /\ status' = "running"
              /\ data' = FreshData(getCurrentPackage)
              /\ stack' = <<Frame(<<>>, "resolve")>>
  /\ UNCHANGED <<env, lockfile, cwdfile>>

\* readDataFile: a file of mode 000 is read by a privileged user only
doInstall ==
  /\ Begin("install")
  /\ IF ~depFileExists
       THEN /\ status' = "noop"
            /\ data' = NoData /\ stack' = <<>>
       ELSE \/ /\ lockfile.exists
               /\ status' = "running"
               /\ data' = [package |-> lockfile.package, deps |-> lockfile.deps]
               /\ stack' = <<Frame(<<>>, "pull")>>
            \/ /\ ~lockfile.exists \/ lockfile.perm0
               /\ status' = "aborted"
               /\ data' = NoData /\ stack' = <<>>
  /\ UNCHANGED <<env, lockfile, cwdfile, vendor>>

\* a write that empties the file before it fails
Truncated(f) == IF f.exists THEN [f EXCEPT !.package = "", !.deps = EmptyMap] ELSE f

\* ioutil.WriteFile on a file it may not open for writing: the open fails and
\* the file stays as it is
Refused(f) == f

\* the command's last statement, writeDataFile(data): the file is named
\* relative to the working directory of the invocation, which is the project
\* root or some other directory; a file of mode 000 is not opened for writing
\* (but by a privileged user)
writeDataFile ==
  /\ status = "running" /\ stack = <<>>
  /\ \/ /\ status' = "done"
        /\ lockfile' = Written(lockfile, data)
        /\ UNCHANGED cwdfile
     \/ /\ status' = "done"
        /\ cwdfile' = Written(cwdfile, data)
        /\ UNCHANGED lockfile
     \/ /\ \/ lockfile.exists /\ lockfile.perm0
           \/ cwdfile.exists /\ cwdfile.perm0
        /\ status' = "aborted"
        /\ lockfile' = Refused(lockfile)
        /\ cwdfile' = Refused(cwdfile)
  /\ UNCHANGED <<env, vendor, run, cmd, prev, data, stack, task, chan, ops>>

\* ------------------------------------------------------------ the resolver
\* the file system refuses a directory nested deeper than MaxDepth
TooDeep(p) == Len(p) > MaxDepth

\* resolveDependencies, lines 104-106: getAllSourceFiles and getAllImports
\* panic on a directory or a file they cannot read or parse (lines 176, 158,
\* 163)
scanFails ==
  /\ status = "running" /\ stack # <<>> /\ Top.mode = "resolve"
  /\ status' = "aborted"
  /\ stack' = SetTop([Top EXCEPT !.mode = "unparsed"])
  /\ UNCHANGED <<env, lockfile, cwdfile, vendor, run, cmd, prev, data, task, chan, ops>>

\* resolveDependencies, lines 104-108, and installPackages up to its second
\* loop: the packages are matched, their directories created, one goroutine
\* started for each
resolveDependencies ==
  /\ status = "running" /\ stack # <<>> /\ Top.mode = "resolve"
  /\ LET p == Top.path
         packages == getImports(imports[Self(p)], Self(p))
         dirs == {Child(p, x) : x \in packages}
     IN IF \E q \in dirs : TooDeep(q)
          THEN /\ status' = "aborted"
               /\ UNCHANGED <<vendor, stack, task, chan>>
          ELSE /\ vendor' = [q \in DOMAIN vendor \cup dirs |->
                               IF q \in DOMAIN vendor THEN vendor[q] ELSE EmptyDir]
               /\ task' = [q \in DOMAIN task \cup dirs |->
                             IF q \in dirs THEN "clone" ELSE task[q]]
               /\ chan' = [q \in DOMAIN chan \cup dirs |->
                             IF q \in dirs THEN <<>> ELSE chan[q]]
               /\ stack' = SetTop([path |-> p, todo |-> packages,
                                   mode |-> IF packages = {} THEN "recurse"
                                            ELSE "collect"])
               /\ UNCHANGED status
  /\ UNCHANGED <<env, lockfile, cwdfile, run, cmd, prev, data, ops>>

\* clonePackage, line 344: a clone that fails panics, the deferred function
\* recovers and sends the nil entry
clonePackage(q) ==
  /\ status = "running" /\ q \in DOMAIN task /\ task[q] = "clone"
  /\ ops' = ops \cup {<<q, "clone">>}
  /\ \/ /\ CanClone(q)
        /\ vendor' = cloneRepo(vendor, q)
        /\ task' = [task EXCEPT ![q] = "query"]
        /\ UNCHANGED chan
     \/ /\ task' = [task EXCEPT ![q] = "failed"]
        /\ chan' = [chan EXCEPT ![q] = Append(@, NilEntry)]
        /\ UNCHANGED vendor
  /\ UNCHANGED <<env, lockfile, cwdfile, run, cmd, prev, status, data, stack>>

\* clonePackage, lines 346-354: branch and commit are read and the entry is
\* sent; a query that fails panics like the clone
queryPackage(q) ==
  /\ status = "running" /\ q \in DOMAIN task /\ task[q] = "query"
  /\ \/ /\ task' = [task EXCEPT ![q] = "defer"]
        /\ chan' = [chan EXCEPT ![q] =
                      Append(@, [nil |-> FALSE, url |-> UrlOf(q[Len(q)]),
                                 branch |-> getCurrentBranch(q),
                                 commit |-> getCurrentCommitHash(q)])]
     \/ /\ task' = [task EXCEPT ![q] = "failed"]
        /\ chan' = [chan EXCEPT ![q] = Append(@, NilEntry)]
  /\ UNCHANGED <<env, lockfile, cwdfile, vendor, run, cmd, prev, status, data, stack, ops>>

\* a channel without a buffer: a send waits for a receiver of its own
Unbuffered(c) == FALSE

\* make(chan channelResult, 1), line 268: a send ends at once while the
\* buffer has room
HasRoom(c) == Len(c) < ChanCap

\* clonePackage, lines 333-340: on the normal return the deferred function
\* sends a second, nil result; the channel holds ChanCap values
deferredSend(q) ==
  /\ status = "running" /\ q \in DOMAIN task /\ task[q] = "defer"
  /\ HasRoom(chan[q])
  /\ chan' = [chan EXCEPT ![q] = Append(@, NilEntry)]
  /\ task' = [task EXCEPT ![q] = "cloned"]
  /\ UNCHANGED <<env, lockfile, cwdfile, vendor, run, cmd, prev, status, data, stack, ops>>

\* the collector of an earlier version of the file: every received result
\* is entered, the nil one too
CollectedUnchecked(deps, q, result) ==
  IF ~result.nil
    THEN Put(deps, q, [url |-> result.url, branch |-> result.branch,
                       commit |-> result.commit])
    ELSE Put(deps, q, [url |-> <<>>, branch |-> "", commit |-> ""])

\* what the collector does with a received result (line 275)
Collected(deps, q, result) ==
  IF ~result.nil
    THEN Put(deps, q, [url |-> result.url, branch |-> result.branch,
                       commit |-> result.commit])
    ELSE deps

\* a collector that returns after its first receive
FirstReceived(left) == TRUE

\* the loop of lines 273-279 ends when every channel was received from
AllReceived(left) == left = {}

\* installPackages, lines 273-281: one receive per channel; after the last
\* one the mapping is returned and resolveDependencies ranges over it
installPackages(x) ==
  /\ status = "running" /\ stack # <<>> /\ Top.mode = "collect"
  /\ x \in Top.todo
  /\ LET p == Top.path
         q == Child(p, x)
         deps == Collected(data.deps, q, Head(chan[q]))
         left == Top.todo \ {x}
     IN /\ chan[q] # <<>>
        /\ chan' = [chan EXCEPT ![q] = Tail(@)]
        /\ data' = [data EXCEPT !.deps = deps]
        /\ stack' = SetTop(
             IF AllReceived(left)
               THEN [path |-> p, mode |-> "recurse",
                     todo |-> {r[Len(r)] : r \in ChildrenOf(deps, p)}]
               ELSE [path |-> p, mode |-> "collect", todo |-> left])
  /\ UNCHANGED <<env, lockfile, cwdfile, vendor, run, cmd, prev, status, task, ops>>

\* resolveDependencies, lines 110-114: the recursive call for one entry
resolveEntry(x) ==
  /\ status = "running" /\ stack # <<>> /\ Top.mode = "recurse"
  /\ x \in Top.todo
  /\ stack' = Append(SetTop([Top EXCEPT !.todo = @ \ {x}]),
                     Frame(Child(Top.path, x), "resolve"))
  /\ UNCHANGED <<env, lockfile, cwdfile, vendor, run, cmd, prev, status, data, task,
                 chan, ops>>

\* resolveDependencies, line 116
resolveReturn ==
  /\ status = "running" /\ stack # <<>> /\ Top.mode = "recurse"
  /\ Top.todo = {}
  /\ stack' = Pop
  /\ UNCHANGED <<env, lockfile, cwdfile, vendor, run, cmd, prev, status, data, task,
                 chan, ops>>

\* ---------------------------------------------------------- the reconciler
\* pullPackages, lines 286-301: nothing to do for an empty mapping; else one
\* goroutine per entry
pullPackages ==
  /\ status = "running" /\ stack # <<>> /\ Top.mode = "pull"
  /\ LET p == Top.path
         dirs == ChildrenOf(data.deps, p)
     IN IF dirs = {}
          THEN /\ stack' = Pop
               /\ UNCHANGED <<task, chan>>
          ELSE /\ task' = [q \in DOMAIN task \cup dirs |->
                             IF q \in dirs THEN "start" ELSE task[q]]
               /\ chan' = [q \in DOMAIN chan \cup dirs |->
                             IF q \in dirs THEN <<>> ELSE chan[q]]
               /\ stack' = SetTop([path |-> p, mode |-> "wait",
                                   todo |-> {q[Len(q)] : q \in dirs}])
  /\ UNCHANGED <<env, lockfile, cwdfile, vendor, run, cmd, prev, status, data, ops>>

\* pullPackages, lines 303-313: a result is received and the entry's own
\* dependencies are pulled at once, inside the loop over the channels
pullEntry(x) ==
  /\ status = "running" /\ stack # <<>> /\ Top.mode = "wait"
  /\ x \in Top.todo
  /\ LET q == Child(Top.path, x)
     IN /\ chan[q] # <<>>
        /\ chan' = [chan EXCEPT ![q] = Tail(@)]
        /\ stack' = Append(SetTop([Top EXCEPT !.todo = @ \ {x}]),
                           Frame(q, "pull"))
  /\ UNCHANGED <<env, lockfile, cwdfile, vendor, run, cmd, prev, status, data, task, ops>>

\* a loop over the channels that ends after its first receive
FirstPulled(left) == TRUE

\* the loop of lines 303-314 ends when every channel was received from
AllPulled(left) == left = {}

\* pullPackages, line 315
pullReturn ==
  /\ status = "running" /\ stack # <<>> /\ Top.mode = "wait"
  /\ AllPulled(Top.todo)
  /\ stack' = Pop
  /\ UNCHANGED <<env, lockfile, cwdfile, vendor, run, cmd, prev, status, data, task,
                 chan, ops>>

\* pullPackage, lines 319-325: the directory is created and, unless it is a
\* repository already, the entry's url is cloned into it.  The goroutine
\* recovers nothing: a command that fails panics and ends the process.
pullPackage(q) ==
  /\ status = "running" /\ q \in DOMAIN task /\ task[q] = "start"
  /\ IF ~fileExists(q) /\ TooDeep(q)
       THEN /\ status' = "aborted"
            /\ task' = [task EXCEPT ![q] = "panicked"]
            /\ UNCHANGED <<vendor, ops>>
       ELSE IF isGitRepo(q)
         THEN /\ task' = [task EXCEPT ![q] = "branch"]
              /\ UNCHANGED <<vendor, status, ops>>
         ELSE /\ ops' = ops \cup {<<q, "clone">>}
              /\ \/ /\ createDir(vendor, q)[q].kind = "dir"
                    /\ data.deps[q].url # <<>>
                    /\ vendor' = cloneRepo(vendor, q)
                    /\ task' = [task EXCEPT ![q] = "branch"]
                    /\ UNCHANGED status
                 \/ /\ vendor' = createDir(vendor, q)
                    /\ status' = "aborted"
                    /\ task' = [task EXCEPT ![q] = "panicked"]
  /\ UNCHANGED <<env, lockfile, cwdfile, run, cmd, prev, data, stack, chan>>

\* a pullRepo that leaves an empty field empty
NoBackfill(pinned, current) == pinned

\* a pullRepo that records what it finds in place of what is pinned
Observed(pinned, current) == current

\* the entry after pullRepo's line 410-412 (resp. 417-419): an empty field is
\* filled with what the checkout has
Backfill(pinned, current) == IF pinned = "" THEN current ELSE pinned

\* a pullRepo that checks out whatever it finds
AlwaysDiffers(current, pinned) == TRUE

\* pullRepo's condition for a checkout (lines 413, 420)
Differs(current, pinned) == current # pinned

\* pullRepo, lines 409-415
pullRepoBranch(q) ==
  /\ status = "running" /\ q \in DOMAIN task /\ task[q] = "branch"
  /\ LET branch == getCurrentBranch(q)
         pinned == Backfill(data.deps[q].branch, branch)
     IN /\ data' = [data EXCEPT !.deps[q].branch = pinned]
        /\ IF Differs(branch, pinned)
             THEN /\ ops' = ops \cup {<<q, "checkoutBranch">>}
                  /\ \/ /\ vendor' = [vendor EXCEPT ![q] = checkoutBranch(@, pinned)]
                        /\ task' = [task EXCEPT ![q] = "commit"]
                        /\ UNCHANGED status
                     \/ /\ status' = "aborted"
                        /\ task' = [task EXCEPT ![q] = "panicked"]
                        /\ UNCHANGED vendor
             ELSE /\ task' = [task EXCEPT ![q] = "commit"]
                  /\ UNCHANGED <<vendor, status, ops>>
  /\ UNCHANGED <<env, lockfile, cwdfile, run, cmd, prev, stack, chan>>

\* pullRepo, lines 416-422, and pullPackage's send of line 329
pullRepoCommit(q) ==
  /\ status = "running" /\ q \in DOMAIN task /\ task[q] = "commit"
  /\ LET commit == getCurrentCommitHash(q)
         pinned == Backfill(data.deps[q].commit, commit)
     IN /\ data' = [data EXCEPT !.deps[q].commit = pinned]
        /\ IF Differs(commit, pinned)
             THEN /\ ops' = ops \cup {<<q, "checkoutCommit">>}
                  /\ \/ /\ vendor' = [vendor EXCEPT ![q] = checkoutCommit(@, pinned)]
                        /\ task' = [task EXCEPT ![q] = "pulled"]
                        /\ chan' = [chan EXCEPT ![q] = Append(@, NilEntry)]
                        /\ UNCHANGED status
                     \/ /\ status' = "aborted"
                        /\ task' = [task EXCEPT ![q] = "panicked"]
                        /\ UNCHANGED <<vendor, chan>>
             ELSE /\ task' = [task EXCEPT ![q] = "pulled"]
                  /\ chan' = [chan EXCEPT ![q] = Append(@, NilEntry)]
                  /\ UNCHANGED <<vendor, status, ops>>
  /\ UNCHANGED <<env, lockfile, cwdfile, run, cmd, prev, stack>>

\* ------------------------------------------------------------ specification
Next ==
  \/ doInit
  \/ doInstall
  \/ doRebuild
  \/ scanFails
  \/ resolveDependencies
  \/ \E q \in DOMAIN task : clonePackage(q)
  \/ \E q \in DOMAIN task : queryPackage(q)
  \/ \E q \in DOMAIN task : deferredSend(q)
  \/ \E x \in Packages : installPackages(x)
  \/ \E x \in Packages : resolveEntry(x)
  \/ resolveReturn
  \/ pullPackages
  \/ \E x \in Packages : pullEntry(x)
  \/ pullReturn
  \/ \E q \in DOMAIN task : pullPackage(q)
  \/ \E q \in DOMAIN task : pullRepoBranch(q)
  \/ \E q \in DOMAIN task : pullRepoCommit(q)
  \/ writeDataFile

Spec == Init /\ [][Next]_vars

\* ------------------------------------------------- the resolver by itself
\* init in projects that were never initialised, over import
\* graphs without a cycle of up to MaxEdges imports: a package can be imported
\* by the project and by one of its dependencies
MaxEdges == 3
Acyclic(g) == \A p \in Packages : p \notin Reach(g, g[p])
AcyclicGraphs ==
  {g \in [Packages -> SUBSET Packages] :
     /\ Edges(g) <= MaxEdges
     /\ Acyclic(g)
     /\ LET used == Reach(g, {RootPkg})
        IN /\ \A p \in Packages \ used : g[p] = {}
           /\ "c" \in used => "b" \in used
           /\ "b" \in used => "a" \in used}

ResolveInit ==
  /\ imports \in AcyclicGraphs
  /\ origin = RootPkg
  /\ lockfile = NoFile /\ cwdfile = NoFile
  /\ vendor = EmptyMap
  /\ Idle
  /\ NoUnit

ResolveNext ==
  \/ doInit
  \/ scanFails
  \/ resolveDependencies
  \/ \E q \in DOMAIN task : clonePackage(q)
  \/ \E q \in DOMAIN task : queryPackage(q)
  \/ \E q \in DOMAIN task : deferredSend(q)
  \/ \E x \in Packages : installPackages(x)
  \/ \E x \in Packages : resolveEntry(x)
  \/ resolveReturn
  \/ writeDataFile

ResolveSpec == ResolveInit /\ [][ResolveNext]_vars

\* The scheduler runs a goroutine that can take a step: a clone task that is
\* at its clone, at its queries or at its deferred send (its git commands
\* end), and the main goroutine. Nothing is required of the failures
\* (scanFails) or of the start of another invocation.
Fairness ==
  /\ WF_vars(\E q \in DOMAIN task : clonePackage(q))
  /\ WF_vars(\E q \in DOMAIN task : queryPackage(q))
  /\ WF_vars(\E q \in DOMAIN task : deferredSend(q))
  /\ WF_vars(resolveDependencies)
  /\ WF_vars(\E x \in Packages : installPackages(x))
  /\ WF_vars(\E x \in Packages : resolveEntry(x))
  /\ WF_vars(resolveReturn)
  /\ WF_vars(writeDataFile)

FairResolveSpec == ResolveInit /\ [][ResolveNext]_vars /\ Fairness

\* ----------------------------------------------- the package path matcher
\* An import string is a sequence of characters.  The strings tried are path
\* segments joined by "/": a short and a long name and a host name.
MaxSegs == 4      \* segments of the longest import string tried
TailMax == 6      \* the {1,6} of getPackagePattern

Short == <<"x">>
Long == <<"x", "x", "x", "x", "x">>
Host == <<"x", ".", "x">>
Segs == {Short, Long, Host}

RECURSIVE JoinSlash(_)
JoinSlash(segs) ==
  IF Len(segs) = 0 THEN <<>>
  ELSE IF Len(segs) = 1 THEN segs[1]
  ELSE segs[1] \o <<"/">> \o JoinSlash(Tail(segs))

SegLists == UNION {[1..n -> Segs] : n \in 1..MaxSegs}

\* the project's own identifier
ThisPkg == JoinSlash(<<Host, Long, Short>>)

\* the number of characters from position from on that are not a "/"
RunNotSlash(v, from) ==
  CHOOSE n \in 0..(Len(v) + 1 - from) :
    /\ \A t \in from..(from + n - 1) : v[t] # "/"
    /\ from + n > Len(v) \/ v[from + n] = "/"

\* getPackagePattern: ^([^/]+\.[^.]{1,6}/[^/]+/[^/]+).  A way to match v is
\* the length i of the first [^/]+ and the length j of [^.]{1,6}; the two
\* [^/]+ that follow take what there is up to the next "/".
Ways(v) ==
  {w \in (1..Len(v)) \X (1..TailMax) :
     LET i == w[1]
         j == w[2]
         org == i + j + 3
     IN /\ org <= Len(v)
        /\ \A t \in 1..i : v[t] # "/"
        /\ v[i + 1] = "."
        /\ \A t \in (i + 2)..(i + 1 + j) : v[t] # "."
        /\ v[i + j + 2] = "/"
        /\ LET k == RunNotSlash(v, org)
           IN /\ k >= 1
              /\ org + k <= Len(v)
              /\ RunNotSlash(v, org + k + 1) >= 1}

\* pattern.MatchString(val)
MatchString(v) == Ways(v) # {}

\* pattern.FindString(val): the match a backtracking search finds first,
\* every repetition taking as much as it can (the first one before the second)
FindString(v) ==
  LET w == CHOOSE c \in Ways(v) :
             \A d \in Ways(v) : d[1] < c[1] \/ (d[1] = c[1] /\ d[2] <= c[2])
      org == w[1] + w[2] + 3
      repo == org + RunNotSlash(v, org) + 1
  IN SubSeq(v, 1, repo + RunNotSlash(v, repo) - 1)

\* getImports, lines 214-224: the matching import strings, cut to the match
Matched(strings) == {FindString(v) : v \in {u \in strings : MatchString(u)}}

\* a string cut at its "/"
RECURSIVE Split(_)
Split(v) ==
  LET n == RunNotSlash(v, 1)
  IN IF n >= Len(v) THEN <<v>>
     ELSE <<SubSeq(v, 1, n)>> \o Split(SubSeq(v, n + 2, Len(v)))

\* installPackages, lines 256, 265: filepath.Join(vendorDir, FromSlash(pkg)),
\* as the list of the directory names from the project root
pkgDir(pkg) == <<vendorFolderName>> \o Split(pkg)

\* the imports of one project: an import string, and that string cut after
\* some of its segments (a package and a sub-package of it)
MatchInit ==
  /\ imports = NoImports /\ origin = RootPkg
  /\ lockfile = NoFile /\ cwdfile = NoFile /\ vendor = EmptyMap
  /\ Idle
  /\ \E s \in SegLists : \E n \in 1..Len(s) :
       importSpecs = {JoinSlash(s), JoinSlash(SubSeq(s, 1, n))}
  /\ idents = {} /\ targets = {}
  /\ tree = EmptyMap /\ sources = <<>>
  /\ pos = "parsed"
  /\ NoCodec /\ NoCli

\* resolveDependencies, line 107: packages := getImports(imports, pkg)
getImportsCall ==
  /\ pos = "parsed"
  /\ idents' = getImports(Matched(importSpecs), ThisPkg)
  /\ pos' = "matched"
  /\ UNCHANGED <<program, importSpecs, targets, tree, sources, codec, cli>>

\* installPackages, lines 263-270: a directory and a goroutine for every
\* package, all of them started before the first result is received
installPackagesStart ==
  /\ pos = "matched"
  /\ targets' = {pkgDir(pkg) : pkg \in idents}
  /\ pos' = "started"
  /\ UNCHANGED <<program, importSpecs, idents, tree, sources, codec, cli>>

MatchNext == getImportsCall \/ installPackagesStart

MatchSpec == MatchInit /\ [][MatchNext]_vars

\* ------------------------------------------------------ the source scanner
\* A directory tree is a function from paths (lists of names below the scan
\* root) to "dir" or "file"; a name is a sequence of characters.
MaxNodes == 4     \* files and directories of the largest tree scanned

SubDir == <<"d">>
GoFile == <<"m", ".", "g", "o">>
Plain == <<"g", "o">>
Names == {SubDir, Plain, GoFile, vendorFolderName}
\* ioutil.ReadDir returns the entries sorted by name
ReadDir == <<SubDir, Plain, GoFile, vendorFolderName>>
GoSuffix == <<".", "g", "o">>

\* what an entry of a name is: d is a directory, go a file, the others either
Entries ==
  {e \in Names \X {"dir", "file"} :
     /\ e[1] = SubDir => e[2] = "dir"
     /\ e[1] = Plain => e[2] = "file"}
\* the trees that have one entry more than t
Grown(t) ==
  {Put(t, Child(p, e[1]), e[2]) :
     p \in {q \in DOMAIN t : t[q] = "dir"} \cup {<<>>}, e \in Entries} \ {t}
RECURSIVE TreesUpTo(_)
TreesUpTo(n) ==
  IF n = 0 THEN {EmptyMap}
  ELSE LET smaller == TreesUpTo(n - 1)
       IN smaller \cup
          UNION {{u \in Grown(t) : Cardinality(DOMAIN u) > Cardinality(DOMAIN t)} :
                   t \in smaller}
Trees == TreesUpTo(MaxNodes)

\* strings.HasSuffix
HasSuffix(str, suffix) ==
  /\ Len(str) >= Len(suffix)
  /\ SubSeq(str, Len(str) - Len(suffix) + 1, Len(str)) = suffix

\* a scanner that enters every directory
skipsNothing(name) == FALSE

\* f.Name() == vendorFolderName (line 183)
isVendorFolder(name) == name = vendorFolderName

\* getAllSourceFiles: the loop over the entries of dir (lines 180-197), and
\* the call for a directory
RECURSIVE getAllSourceFiles(_, _), scanEntries(_, _, _)
scanEntries(t, dir, files) ==
  IF files = <<>> THEN <<>>
  ELSE LET f == Head(files)
           path == Child(dir, f)
           fullName == JoinSlash(path)
           rest == scanEntries(t, dir, Tail(files))
       IN IF path \notin DOMAIN t THEN rest
          ELSE IF t[path] = "dir"
            THEN IF isVendorFolder(f) THEN rest
                 ELSE getAllSourceFiles(t, path) \o rest
            ELSE IF HasSuffix(fullName, GoSuffix) THEN <<fullName>> \o rest
                 ELSE rest
getAllSourceFiles(t, dir) == scanEntries(t, dir, ReadDir)

ScanInit ==
  /\ imports = NoImports /\ origin = RootPkg
  /\ lockfile = NoFile /\ cwdfile = NoFile /\ vendor = EmptyMap
  /\ Idle
  /\ importSpecs = {} /\ idents = {} /\ targets = {}
  /\ tree \in Trees
  /\ sources = <<>>
  /\ pos = "listed"
  /\ NoCodec /\ NoCli

\* resolveDependencies, line 104: files := getAllSourceFiles(dir)
getAllSourceFilesCall ==
  /\ pos = "listed"
  /\ sources' = getAllSourceFiles(tree, <<>>)
  /\ pos' = "scanned"
  /\ UNCHANGED <<program, importSpecs, idents, targets, tree, codec, cli>>

ScanSpec == ScanInit /\ [][getAllSourceFilesCall]_vars

\* ------------------------------------------------------ the lockfile's codec
\* The url, branch and commit of an entry are sequences of bytes here. A
\* branch name is what `git branch` prints (getCurrentBranch keeps its bytes),
\* and git takes a name that is not valid UTF-8; BadByte is such a byte.
BadByte == "xE9"
ReplacementChar == "uFFFD"
BranchNames == {<<>>, <<"m">>, <<"m", BadByte>>}
CommitNames == {<<>>, <<"c", "1">>}
UrlNames(x) == {<<>>, UrlOf(x)}
OptionalFields == {"url", "branch", "commit"}

\* encoder.Encode, line 456: encoding/json writes a string coerced to valid
\* UTF-8, a byte that is not valid becomes the replacement character
Coerce(str) ==
  [i \in DOMAIN str |-> IF str[i] = BadByte THEN ReplacementChar ELSE str[i]]

\* `json:"...,omitempty"`: an empty string is left out
omitempty(v) == v = <<>>

\* the JSON text as its value: an object is a function from its member names;
\* "dependencies" has no omitempty and is always written
RECURSIVE encodeMap(_, _), encodeEntry(_, _)
encodeEntry(deps, q) ==
  LET present == {k \in OptionalFields : ~omitempty(deps[q][k])}
  IN [k \in present \cup {"dependencies"} |->
        IF k = "dependencies" THEN encodeMap(deps, q) ELSE Coerce(deps[q][k])]
encodeMap(deps, p) ==
  [x \in {q[Len(q)] : q \in ChildrenOf(deps, p)} |-> encodeEntry(deps, Child(p, x))]

jsonEncodeIndented(d) ==
  [package |-> d.package, dependencies |-> encodeMap(d.deps, <<>>)]

\* json.Unmarshal into a new bpmPackage: a member that is not in the text
\* leaves the field at its zero value
Field(obj, k) == IF k \in DOMAIN obj THEN obj[k] ELSE <<>>
RECURSIVE decodeMap(_, _)
decodeMap(obj, p) ==
  UNION {{<<Child(p, x), [url |-> Field(obj[x], "url"),
                          branch |-> Field(obj[x], "branch"),
                          commit |-> Field(obj[x], "commit")]>>}
           \cup decodeMap(Field(obj[x], "dependencies"), Child(p, x)) :
         x \in DOMAIN obj}
jsonUnmarshal(json) ==
  LET pairs == decodeMap(json.dependencies, <<>>)
  IN [package |-> json.package,
      deps |-> [q \in {e[1] : e \in pairs} |->
                  (CHOOSE e \in pairs : e[1] = q)[2]]]

\* the permission bits of os.ModeExclusive (line 463)
ModeExclusive == "000"
PeerFields(q) ==
  [url |-> UrlOf(q[Len(q)]), branch |-> <<"m">>, commit |-> <<"c", "1">>]

\* a bpmPackage in memory: the graph resolve has built, or one install has
\* read; one entry of it takes every value of the three fields
CodecInit ==
  /\ imports = NoImports /\ origin = RootPkg
  /\ lockfile = NoFile /\ cwdfile = NoFile /\ vendor = EmptyMap
  /\ run = "none" /\ cmd = "none" /\ status = "idle"
  /\ prev = [cmd |-> "none", status |-> "idle",
             lockfile |-> lockfile, cwdfile |-> cwdfile]
  /\ stack = <<>> /\ task = EmptyMap /\ chan = EmptyMap /\ ops = {}
  /\ \E shape \in LockShapes : \E focus \in shape \cup {<<>>} :
       \E b \in BranchNames : \E c \in CommitNames :
         \E u \in UrlNames(IF focus = <<>> THEN RootPkg ELSE focus[Len(focus)]) :
           /\ focus = <<>> => PeerFields(<<RootPkg>>) = [url |-> u, branch |-> b, commit |-> c]
           /\ data = [package |-> RootPkg,
                      deps |-> [q \in shape |->
                                  IF q = focus
                                    THEN [url |-> u, branch |-> b, commit |-> c]
                                    ELSE PeerFields(q)]]
  /\ importSpecs = {} /\ idents = {} /\ targets = {}
  /\ tree = EmptyMap /\ sources = <<>>
  /\ pos = "built"
  /\ NoCodec /\ NoCli

\* writeDataFile, lines 462-466: the file is created with the permission
\* bits of os.ModeExclusive
writeDataFileCall ==
  /\ pos = "built"
  /\ document' = [mode |-> ModeExclusive, json |-> jsonEncodeIndented(data)]
  /\ pos' = "written"
  /\ UNCHANGED <<program, importSpecs, idents, targets, tree, sources, decoded, cli>>

\* readDataFile, lines 468-479: ioutil.ReadFile of a file of mode 000 fails
\* unless the user is privileged, and the error panics
readDataFileCall ==
  /\ pos = "written"
  /\ \E privileged \in BOOLEAN :
       IF document.mode = ModeExclusive /\ ~privileged
         THEN pos' = "unreadable" /\ UNCHANGED decoded
         ELSE pos' = "read" /\ decoded' = jsonUnmarshal(document.json)
  /\ UNCHANGED <<program, importSpecs, idents, targets, tree, sources, document, cli>>

CodecNext == writeDataFileCall \/ readDataFileCall

CodecSpec == CodecInit /\ [][CodecNext]_vars

\* ------------------------------------------------------- the command line
\* Directories are named by their absolute paths; ParentDir is
\* filepath.Abs(dir + "/.."), which is the root for the root.
Dirs == {"/", "/p", "/p/q", "/w"}
ParentDir == [d \in Dirs |-> IF d = "/p/q" THEN "/p" ELSE "/"]
CommandNames == {"init", "install", "update", "rebuild"}
\* c.NewArg("-d", ...), c.NewArg("-p", ...): the names as they are typed
ArgNames == {"-d", "-p"}
NilDir == "(nil)"

\* what is typed: the program alone, a command, a command followed by -d and
\* a directory, or -d and a directory followed by a command
CommandLines ==
  {<<"bpm">>}
    \cup {<<"bpm", c>> : c \in CommandNames}
    \cup {<<"bpm", c, "-d", d>> : c \in CommandNames, d \in Dirs}
    \cup {<<"bpm", "-d", d, c>> : c \in CommandNames, d \in Dirs}

\* getCurrentDir, lines 53-56: the directory of the executable
getCurrentDir == exe

\* flag.Parse(), commands.go line 111: the flag package reads os.Args[1:] and
\* stops at the first argument that does not begin with "-", leaving every
\* flag at its default; an argument that begins with "-" and names no flag
\* (the flags are registered as "-d" and "-p", which are looked up without
\* their dashes) ends the process
flagParse(arguments, def) ==
  IF arguments = <<>> \/ Head(arguments) \notin ArgNames
    THEN [ok |-> TRUE, dir |-> def]
    ELSE [ok |-> FALSE, dir |-> def]

\* findPackageFile, lines 69-82
RECURSIVE findPackageFile(_)
findPackageFile(dir) ==
  IF dir = "." THEN NilDir
  ELSE IF dir \in lockdirs THEN dir
  ELSE IF ParentDir[dir] = dir THEN NilDir
  ELSE findPackageFile(ParentDir[dir])

\* &dir: the address of main's variable, which is never nil
AddressOf(v) == [nil |-> FALSE, value |-> v]

\* getDir, lines 58-67
getDir(dir) ==
  IF ~dir.nil THEN dir.value ELSE findPackageFile(getCurrentDir)

CliInit ==
  /\ imports = NoImports /\ origin = RootPkg
  /\ lockfile = NoFile /\ cwdfile = NoFile /\ vendor = EmptyMap
  /\ Idle
  /\ importSpecs = {} /\ idents = {} /\ targets = {}
  /\ tree = EmptyMap /\ sources = <<>>
  /\ NoCodec
  /\ args \in CommandLines
  /\ exe \in Dirs
  /\ lockdirs \in SUBSET Dirs
  /\ chosen = ""
  /\ pos = "typed"

\* HandleArgs (commands.go, lines 86-114) and the handler main has registered
\* for the command (lines 36-46), up to the directory it hands to doInit,
\* doInstall, doUpdate or doRebuild
HandleArgs ==
  /\ pos = "typed"
  /\ IF Len(args) <= 1 \/ args[2] \notin CommandNames
       THEN pos' = "help" /\ UNCHANGED chosen
       ELSE LET parsed == flagParse(Tail(args), getCurrentDir)
                dir == parsed.dir
            IN IF ~parsed.ok
                 THEN pos' = "exit" /\ UNCHANGED chosen
               ELSE IF args[2] = "init"
                 THEN pos' = "handled" /\ chosen' = getCurrentDir
               ELSE IF getDir(AddressOf(dir)) = NilDir
                 THEN pos' = "panic" /\ UNCHANGED chosen
               ELSE pos' = "handled" /\ chosen' = getDir(AddressOf(dir))
  /\ UNCHANGED <<program, importSpecs, idents, targets, tree, sources, codec,
                 args, exe, lockdirs>>

CliSpec == CliInit /\ [][HandleArgs]_vars

\* ------------------------------------------------------------------ claims
Resolving == cmd \in {"init", "rebuild"}
Frames == {stack[i] : i \in 1..Len(stack)}
\* the directories installPackages has returned the mapping of
Joined == {f.path : f \in {g \in Frames : g.mode = "recurse"}}
Succeeded(q) == task[q] \in {"defer", "cloned"}

\* C1: when installPackages has returned for a directory, the keys of its
\* mapping are exactly the packages whose task succeeded, each with the url,
\* branch and commit of its checkout; and a task that fails leaves the run
\* running.
C1_Keys ==
  Resolving =>
    \A p \in Joined :
      /\ ChildrenOf(data.deps, p) = {q \in ChildrenOf(task, p) : Succeeded(q)}
      /\ \A q \in ChildrenOf(data.deps, p) :
           /\ isGitRepo(q)
           /\ data.deps[q] = [url |-> UrlOf(q[Len(q)]),
                              branch |-> vendor[q].branch,
                              commit |-> vendor[q].head]
           /\ data.deps[q].commit # ""
C1_TaskFails ==
  \E q \in DOMAIN task : task[q] \in {"clone", "query"} /\ task'[q] = "failed"
C1_PartialFailureIsolation ==
  /\ []C1_Keys
  /\ [][C1_TaskFails => status' = "running"]_vars
\* a run ended normally with one task failed and a sibling's entry recorded
C1_Witness ==
  /\ Resolving /\ status = "done"
  /\ \E q1, q2 \in DOMAIN task :
       /\ Len(q1) = 1 /\ Len(q2) = 1
       /\ task[q1] = "failed"
       /\ q2 \in DOMAIN data.deps
       /\ q1 \notin DOMAIN data.deps

Checkout(q) == {<<q, "checkoutBranch">>, <<q, "checkoutCommit">>}
\* install run a second time, right after an install that ended normally
SecondInstall ==
  /\ cmd = "install" /\ run = "again"
  /\ prev.cmd = "install" /\ prev.status = "done"

\* C2: an install that follows an install which ended normally issues no
\* checkoutBranch and no checkoutCommit, and leaves every branch and commit
\* that the lockfile records as it is.
C2_Idempotent ==
  SecondInstall =>
    /\ \A q \in DOMAIN data.deps : ops \cap Checkout(q) = {}
    /\ \A q \in DOMAIN data.deps \cap DOMAIN lockfile.deps :
         /\ lockfile.deps[q].branch # "" => data.deps[q].branch = lockfile.deps[q].branch
         /\ lockfile.deps[q].commit # "" => data.deps[q].commit = lockfile.deps[q].commit

\* the tasks pullPackages started together with the task of q
Siblings(q) == ChildrenOf(task, Parent(q))

\* C3: while the task of a nested entry exists, every task of the level
\* above it (its parent's task and the parent's siblings) has completed.
C3_LevelJoin ==
  cmd = "install" =>
    \A q \in DOMAIN task :
      Len(q) >= 2 => \A s \in Siblings(Parent(q)) : task[s] = "pulled"

\* an entry this run has begun to pin: its branch step is over, its commit
\* step is not, and the tree is not at the pinned commit
PartlyPinned(q) ==
  /\ task[q] = "commit"
  /\ isGitRepo(q)
  /\ data.deps[q].commit # ""
  /\ vendor[q].tree # data.deps[q].commit

\* C4: when an install is aborted by the failing clone or checkout of an
\* entry, no other entry is partly pinned.
C4_AbortLeavesNoPartialPin ==
  (cmd = "install" /\ status = "aborted") =>
    \A q \in DOMAIN task : ~PartlyPinned(q)

\* C5: a resolution that was started returns: no init or rebuild ends with
\* calls of resolveDependencies that never returned.
C5_ResolveReturns ==
  ~(Resolving /\ status = "aborted" /\ stack # <<>> /\ Top.mode = "resolve")

\* C6: after an install that ended normally every entry's directory is a
\* repository on the entry's branch, its tree at the entry's commit.
C6_Pinned ==
  (cmd = "install" /\ status = "done") =>
    \A q \in DOMAIN data.deps :
      /\ isGitRepo(q)
      /\ vendor[q].branch = data.deps[q].branch
      /\ vendor[q].tree = data.deps[q].commit

\* C7: once installPackages has returned for a directory, no task it started
\* is still cloning or querying: each has delivered its result.
C7_Joined ==
  Resolving =>
    \A p \in Joined : \A q \in ChildrenOf(task, p) :
      task[q] \in {"defer", "cloned", "failed"}
\* the resolver is inside a child while two tasks of the parent level are over
C7_Witness ==
  /\ Resolving /\ Len(stack) >= 2
  /\ Cardinality(ChildrenOf(task, <<>>)) >= 2

\* C8: no key of a resolved mapping is the identifier of the package the
\* mapping belongs to.
C8_ExcludesSelf ==
  Resolving => \A q \in DOMAIN data.deps : q[Len(q)] # Self(Parent(q))
\* a package that imports itself was resolved, with other dependencies recorded
C8_Witness ==
  /\ Resolving /\ status = "done"
  /\ RootPkg \in imports[RootPkg]
  /\ data.deps # EmptyMap

Started(c) == run' # run /\ cmd' = c
NothingDone ==
  /\ status' = "noop"
  /\ vendor' = vendor /\ lockfile' = lockfile /\ cwdfile' = cwdfile
  /\ task' = EmptyMap /\ ops' = {} /\ stack' = <<>>

\* C9: init with a lockfile in the project root clones nothing, leaves the
\* vendor tree and the lockfile as they are and ends normally.
C9_InitNoop ==
  [][(Started("init") /\ lockfile.exists) => NothingDone]_vars
\* init ended as a no-op beside a lockfile and a vendor tree
C9_Witness ==
  /\ cmd = "init" /\ status = "noop"
  /\ lockfile.exists /\ vendor # EmptyMap

\* C10: install without a lockfile in the project root starts no clone and
\* no checkout, leaves the vendor tree as it is, creates no lockfile and ends
\* normally.
C10_InstallNoop ==
  [][(Started("install") /\ ~lockfile.exists) => NothingDone]_vars
\* install ended as a no-op where there is no lockfile
C10_Witness ==
  /\ cmd = "install" /\ status = "noop"
  /\ ~lockfile.exists

\* what git clone leaves in a directory
FreshClone == cloneRepo(EmptyMap, <<>>)[<<>>]
NoTaskFailed == \A q \in DOMAIN task : task[q] # "failed"

\* C11: after a rebuild that ended normally every directory of the vendor
\* tree was made by this rebuild: it is the target of one of its clone tasks
\* and holds nothing or the fresh clone; nothing of the tree before is left.
C11_RebuildClears ==
  (cmd = "rebuild" /\ status = "done") =>
    \A q \in DOMAIN vendor :
      /\ q \in DOMAIN task
      /\ vendor[q] \in {EmptyDir, FreshClone}
\* a rebuild ended normally with a vendor tree of its own, after an install
\* that had pulled every entry of a lockfile into the vendor tree
C11_Witness ==
  /\ cmd = "rebuild" /\ status = "done"
  /\ prev.cmd = "install" /\ prev.status = "done"
  /\ prev.lockfile.deps # EmptyMap
  /\ vendor # EmptyMap

\* the mapping init builds in a project without lockfile and vendor tree when
\* every clone succeeds: under p, an entry for every import of p's package
\* but the package itself, and under each entry its own
RECURSIVE FreshInit(_, _, _)
FreshInit(p, self, depth) ==
  IF depth = 0 THEN {}
  ELSE UNION {{Child(p, x)} \cup FreshInit(Child(p, x), x, depth - 1) :
                x \in getImports(imports[self], self)}
FreshEntry(q) ==
  [url |-> UrlOf(q[Len(q)]), branch |-> FreshClone.branch, commit |-> FreshClone.head]
FreshDeps == [q \in FreshInit(<<>>, origin, MaxDepth + 1) |-> FreshEntry(q)]

\* C12: the lockfile a rebuild writes, whatever lockfile and vendor tree were
\* there before, and the lockfile an init writes both hold the package and
\* the mapping of a fresh init (when no clone fails).
C12_RebuildEqualsInit ==
  (Resolving /\ status = "done" /\ NoTaskFailed) =>
    /\ data = [package |-> origin, deps |-> FreshDeps]
    /\ \E f \in {lockfile, cwdfile} :
         f.exists /\ f.package = origin /\ f.deps = FreshDeps
\* a rebuild ended normally, with entries, beside an older lockfile of other
\* entries and the vendor tree of an install
C12_Witness ==
  /\ cmd = "rebuild" /\ status = "done" /\ NoTaskFailed
  /\ prev.cmd = "install" /\ prev.status = "done"
  /\ prev.lockfile.deps # EmptyMap
  /\ data.deps # EmptyMap /\ data.deps # prev.lockfile.deps

\* the identity of the project cannot be determined: the remote's url yields
\* no identifier, or there is no remote
Unresolvable == origin \in {"", NoRemote}

\* C13: init (without lockfile) and rebuild in a project whose identity
\* cannot be determined end normally: no abort, no clone, the vendor tree and
\* the lockfile as they were.
C13_UnresolvableNotFatal ==
  [][((Started("init") /\ ~lockfile.exists) \/ Started("rebuild")) /\ Unresolvable
       => NothingDone]_vars

WritesFile == lockfile' # lockfile \/ cwdfile' # cwdfile
EndsNormally == status = "running" /\ status' = "done"
\* every goroutine has delivered its result: no work on an entry or on the
\* vendor tree is left to it
TasksOver == \A q \in DOMAIN task : task[q] \in {"defer", "cloned", "failed", "pulled"}

\* C14: the lockfile changes only in the step that ends an invocation
\* normally, which the main flow takes once, after resolveDependencies or
\* pullPackages has returned and when every task of every level is over.
C14_WrittenOnceAfterJoin ==
  [][/\ WritesFile => EndsNormally
     /\ EndsNormally => (stack = <<>> /\ TasksOver /\ run' = run
                          /\ task' = task /\ vendor' = vendor)]_vars
\* an invocation ended normally whose tasks ran on two levels
C14_Witness ==
  /\ status = "done"
  /\ \E q1, q2 \in DOMAIN task : Len(q1) = 1 /\ Len(q2) = 2
  /\ \E f \in {lockfile, cwdfile} : f.exists /\ f.deps = data.deps /\ f.deps # EmptyMap

\* C16: when init, rebuild or install has ended normally, the lockfile it
\* wrote has a commit in every entry, at every depth.
C16_CommitNeverEmpty ==
  (cmd \in {"init", "rebuild", "install"} /\ status = "done") =>
    /\ \A q \in DOMAIN data.deps : data.deps[q].commit # ""
    /\ \E f \in {lockfile, cwdfile} : f.exists /\ f.deps = data.deps
\* an install ended normally on a lockfile with an entry without commit
C16_Witness ==
  /\ cmd = "install" /\ status = "done"
  /\ \E q \in DOMAIN prev.lockfile.deps : prev.lockfile.deps[q].commit = ""

\* init run a second time, or install run, right after an init that ended
\* normally
AfterInit == run = "again" /\ prev.cmd = "init" /\ prev.status = "done"

\* C17: a command that ends normally has written dir/bpm.json, the file
\* that init's check and install's read use, and no other file; so an init
\* after a successful init is a no-op and an install after it finds the
\* lockfile.
C17_LockfileInRoot ==
  /\ status = "done" =>
       /\ lockfile.exists
       /\ lockfile.package = data.package /\ lockfile.deps = data.deps
       /\ cwdfile = prev.cwdfile
  /\ (AfterInit /\ cmd = "init") => status = "noop"
  /\ (AfterInit /\ cmd = "install") => status # "noop"

\* C18: when a command has aborted, the lockfile (and the file of that name
\* in the working directory) is the one the command started with.
C18_AbortWritesNothing ==
  status = "aborted" => (lockfile = prev.lockfile /\ cwdfile = prev.cwdfile)
\* an install aborted beside its lockfile after it had issued git commands
C18_Witness ==
  /\ cmd = "install" /\ status = "aborted"
  /\ lockfile.exists /\ ops # {}

\* the first three path segments of an import string
FirstThree(v) == JoinSlash(SubSeq(Split(v), 1, 3))

\* C19: every identifier getImports returns is the first three path segments
\* of an import string that has three segments or more; so a string of fewer
\* segments yields none, and a repository and its sub-packages yield one.
C19_TruncatesToThree ==
  pos \in {"matched", "started"} =>
    \A id \in idents :
      \E v \in importSpecs : Len(Split(v)) >= 3 /\ id = FirstThree(v)

IsPrefix(d, e) == Len(d) <= Len(e) /\ SubSeq(e, 1, Len(d)) = d

\* C15: of the directories of the clone tasks that one installPackages call
\* has started, none is another one nor lies within another one.
C15_TargetsDisjoint ==
  pos = "started" =>
    \A d, e \in targets : d # e => ~IsPrefix(d, e)

\* a path below a directory named vendor
UnderVendor(path) == \E i \in 1..(Len(path) - 1) : path[i] = vendorFolderName
IsSource(path) == tree[path] = "file" /\ HasSuffix(path[Len(path)], GoSuffix)

\* C20: the list getAllSourceFiles returns holds no file below a directory
\* named vendor, at any depth, and holds every other file with the source
\* extension, once.
C20_VendorExcluded ==
  pos = "scanned" =>
    /\ {sources[i] : i \in DOMAIN sources} =
         {JoinSlash(path) : path \in {q \in DOMAIN tree : IsSource(q) /\ ~UnderVendor(q)}}
    /\ \A i, j \in DOMAIN sources : i # j => sources[i] # sources[j]
\* a tree was scanned that has a source file below a vendor directory two
\* levels down, and a source file elsewhere
C20_Witness ==
  /\ pos = "scanned" /\ sources # <<>>
  /\ \E q \in DOMAIN tree : IsSource(q) /\ UnderVendor(q) /\ q[1] # vendorFolderName


\* C21: reading the lockfile writeDataFile has written gives the graph that
\* was written: readDataFile returns, and what it returns has the package,
\* the keys of every level and the url, branch and commit of every entry of
\* the bpmPackage that was encoded (a field that was left out is empty again).
C21_RoundTrip ==
  pos \in {"read", "unreadable"} => (pos = "read" /\ decoded = data)

\* C22: the directory a command works on. init works on the directory of the
\* running binary. install and rebuild work on the directory given with -d
\* when one is given, and otherwise on the nearest directory, from the
\* binary's directory upwards, that holds a lockfile.
DirGiven == \E i \in 3..(Len(args) - 1) : args[i] = "-d"
DirArgument == args[(CHOOSE i \in 3..(Len(args) - 1) : args[i] = "-d") + 1]
C22_DirectorySelection ==
  (Len(args) >= 2 /\ args[2] \in {"init", "install", "rebuild"}
     /\ pos \in {"handled", "panic", "exit"})
    => /\ args[2] = "init" => (pos = "handled" /\ chosen = exe)
       /\ (args[2] # "init" /\ DirGiven) => (pos = "handled" /\ chosen = DirArgument)
       /\ (args[2] # "init" /\ ~DirGiven /\ findPackageFile(exe) # NilDir)
            => (pos = "handled" /\ chosen = findPackageFile(exe))


\* C23: the resolver clones only what is not vendored yet: no clone is issued
\* by init or rebuild for a directory that already holds a checkout (so that
\* an init of a project whose vendor tree holds a matched dependency keeps
\* that dependency in the graph it writes).
C23_NoCloneOfVendored ==
  [][\A q \in DOMAIN task :
       (Resolving /\ <<q, "clone">> \in ops' \ ops) => ~isGitRepo(q)]_vars


\* C24: for an entry whose branch and commit are pinned, install issues
\* `git checkout <branch>` if and only if the checkout is on another branch,
\* and then `git checkout <commit> .` if and only if HEAD, read after the
\* branch step, is another commit; no branch checkout follows a commit
\* checkout, and the clone of a directory comes before both.
Issued(q, op) == <<q, op>> \in ops' \ ops
BothPinned(q) ==
  /\ cmd = "install" /\ q \in DOMAIN data.deps
  /\ data.deps[q].branch # "" /\ data.deps[q].commit # ""
C24_CheckoutOrder ==
  [][\A q \in DOMAIN task \cap DOMAIN task' :
       BothPinned(q) =>
         /\ (task[q] = "branch" /\ task'[q] # "branch")
              => (Issued(q, "checkoutBranch") <=> vendor[q].branch # data.deps[q].branch)
         /\ (task[q] = "commit" /\ task'[q] # "commit")
              => (Issued(q, "checkoutCommit") <=> vendor[q].head # data.deps[q].commit)
         /\ Issued(q, "clone")
              => (task[q] = "start" /\ <<q, "checkoutBranch">> \notin ops'
                    /\ <<q, "checkoutCommit">> \notin ops')
         /\ Issued(q, "checkoutBranch")
              => (task[q] = "branch" /\ <<q, "checkoutCommit">> \notin ops')
         /\ Issued(q, "checkoutCommit") => task[q] = "commit"]_vars
\* an entry was cloned, moved to its branch and, HEAD being another commit
\* there, to its commit
C24_Witness ==
  \E q \in DOMAIN task :
    /\ cmd = "install" /\ status = "running" /\ task[q] = "pulled"
    /\ q \in DOMAIN prev.lockfile.deps
    /\ prev.lockfile.deps[q].branch # "" /\ prev.lockfile.deps[q].commit # ""
    /\ {<<q, "clone">>, <<q, "checkoutBranch">>, <<q, "checkoutCommit">>} \subseteq ops


\* C25: what install rewrites. The graph install writes has the keys and the
\* urls of the lockfile it read; a branch or commit that was pinned there is
\* the same in it, whatever was checked out; one that was empty is the branch
\* resp. HEAD of the entry's checkout, and no checkout was issued for it.
C25_InstallFrame ==
  (cmd = "install" /\ status = "done")
    => LET old == prev.lockfile.deps
           new == data.deps
       IN /\ \E f \in {lockfile, cwdfile} :
               f.exists /\ f.deps = new /\ f.package = prev.lockfile.package
          /\ DOMAIN new = DOMAIN old
          /\ \A q \in DOMAIN old :
               /\ new[q].url = old[q].url
               /\ IF old[q].branch # ""
                    THEN new[q].branch = old[q].branch
                    ELSE /\ new[q].branch = vendor[q].branch
                         /\ <<q, "checkoutBranch">> \notin ops
               /\ IF old[q].commit # ""
                    THEN new[q].commit = old[q].commit
                    ELSE /\ new[q].commit = vendor[q].head
                         /\ <<q, "checkoutCommit">> \notin ops
\* an install has ended that found a field empty and corrected a drift
C25_Witness ==
  /\ cmd = "install" /\ status = "done"
  /\ \E q \in DOMAIN prev.lockfile.deps :
       /\ prev.lockfile.deps[q].commit = "" /\ data.deps[q].commit # ""
       /\ prev.lockfile.deps[q].branch # ""
       /\ <<q, "checkoutBranch">> \in ops
  /\ \E q \in DOMAIN prev.lockfile.deps : <<q, "checkoutCommit">> \in ops


\* C26: the graph resolve returns is the unfolding of the import relation.
\* When init or rebuild has ended normally, the entries under the root and
\* under every entry are imports of that package other than itself, and all
\* of them when none of their clones failed; every entry has a clone of its
\* own in its own directory under its parent (a package that two parents
\* import has one under each); and nothing was started under a directory
\* whose clone failed.
OwnImports(p) ==
  LET self == IF p = <<>> THEN origin ELSE p[Len(p)]
  IN {x \in imports[self] : x # self}
C26_FullUnfolding ==
  (Resolving /\ status = "done")
    => /\ \A p \in DOMAIN data.deps \cup {<<>>} :
            LET kids == {q[Len(q)] : q \in ChildrenOf(data.deps, p)}
            IN /\ kids \subseteq OwnImports(p)
               /\ \A x \in OwnImports(p) : Child(p, x) \in DOMAIN task
               /\ (\A x \in OwnImports(p) :
                     Child(p, x) \in DOMAIN task /\ task[Child(p, x)] # "failed")
                    => kids = OwnImports(p)
       /\ \A q \in DOMAIN data.deps :
            /\ <<q, "clone">> \in ops
            /\ q \in DOMAIN vendor /\ vendor[q] = FreshClone
            /\ data.deps[q] = FreshEntry(q)
       /\ \A q \in DOMAIN task :
            /\ Parent(q) = <<>> \/ Parent(q) \in DOMAIN data.deps
            /\ task[q] = "failed" => q \notin DOMAIN data.deps
\* init has ended normally, no clone failed, and package b is recorded under
\* the project and under a, which both import it
C26_Witness ==
  /\ Resolving /\ status = "done" /\ NoTaskFailed
  /\ "b" \in imports[RootPkg] /\ "b" \in imports["a"]
  /\ <<"b">> \in DOMAIN data.deps /\ <<"a", "b">> \in DOMAIN data.deps
  /\ vendor[<<"b">>] = FreshClone /\ vendor[<<"a", "b">>] = FreshClone


\* C27: the protocol of the result channels. A task has sent once when it
\* failed or has sent its entry, twice when it has ended normally; the
\* collector has received from a channel once when it is through with it and
\* not before; so a channel holds the sends that were not received, never
\* more than its capacity. A task at its deferred send can send, or the
\* collector has still to receive from its channel; a channel the collector
\* waits for belongs to a task that has still to send. What the collector
\* receives is the first value sent: the entry of a task that succeeded,
\* which is entered in the mapping, or the nil result of one that failed.
\* With a fair scheduler, whenever tasks are at their deferred send there
\* comes a moment when none is, and whenever the collector is in its loop it
\* leaves it (or the process ends before).
Pending(q) ==
  \E f \in Frames :
    f.mode = "collect" /\ f.path = Parent(q) /\ q[Len(q)] \in f.todo
Sends(q) ==
  IF task[q] \in {"clone", "query"} THEN 0
  ELSE IF task[q] \in {"failed", "defer"} THEN 1 ELSE 2
Receives(q) == IF Pending(q) THEN 0 ELSE 1
C27_Safe ==
  cmd = "init" =>
    \A q \in DOMAIN task :
      /\ Len(chan[q]) = Sends(q) - Receives(q)
      /\ Len(chan[q]) <= ChanCap
      /\ (status = "running" /\ task[q] = "defer")
           => (ENABLED deferredSend(q) \/ Pending(q))
      /\ (status = "running" /\ Pending(q) /\ chan[q] = <<>>)
           => ENABLED (clonePackage(q) \/ queryPackage(q))
C27_Receive ==
  \A q \in DOMAIN chan \cap DOMAIN chan' :
    (cmd = "init" /\ Len(chan'[q]) < Len(chan[q]))
      => /\ Pending(q) /\ ~Pending(q)'
         /\ chan'[q] = Tail(chan[q])
         /\ IF Succeeded(q)
              THEN /\ ~Head(chan[q]).nil
                   /\ q \in DOMAIN data'.deps
                   /\ data'.deps[q] = [url |-> Head(chan[q]).url,
                                       branch |-> Head(chan[q]).branch,
                                       commit |-> Head(chan[q]).commit]
              ELSE Head(chan[q]).nil /\ q \notin DOMAIN data'.deps
AtDeferredSend ==
  status = "running" /\ \E q \in DOMAIN task : task[q] = "defer"
Collecting ==
  status = "running" /\ stack # <<>> /\ Top.mode = "collect"
C27_ChannelProtocol ==
  /\ []C27_Safe
  /\ [][C27_Receive]_vars
  /\ AtDeferredSend ~> ~AtDeferredSend
  /\ Collecting ~> ~Collecting
\* a task has sent its entry and its nil result, the collector has received
\* the entry and the channel holds the nil result
C27_Witness ==
  /\ cmd = "init" /\ status = "running"
  /\ \E q \in DOMAIN task :
       /\ task[q] = "cloned" /\ ~Pending(q)
       /\ chan[q] = <<NilEntry>>
       /\ q \in DOMAIN data.deps
  /\ \E q \in DOMAIN task : task[q] = "defer" /\ Pending(q) /\ Len(chan[q]) = ChanCap


\* C28: install right after an init or a rebuild that ended normally, nothing
\* changed in between: it reads the lockfile that command wrote, issues no
\* clone and no checkout, and ends with the graph that command wrote, written
\* again.
AfterResolve ==
  cmd = "install" /\ prev.cmd \in {"init", "rebuild"} /\ prev.status = "done"
C28_InstallAfterInit ==
  AfterResolve
    => /\ status \in {"running", "done"}
       /\ ops = {}
       /\ \E f \in {prev.lockfile, prev.cwdfile} :
            f.exists /\ f.package = data.package /\ f.deps = data.deps
       /\ status = "done" => (lockfile = prev.lockfile /\ cwdfile = prev.cwdfile)


====
